---- MODULE Spec2Model ----
(***************************************************************************)
(* Lead-management backend (glimpse): the CSV bulk import of               *)
(* src/src/main.py (load_data_file) over the tables of src/src/models.py,  *)
(* and the token helpers create_access_token / verify_token.               *)
(*                                                                         *)
(* The database is a committed store plus, per request, the uncommitted    *)
(* writes of that request's session (autocommit=False, autoflush=False).   *)
(* A session reads the committed store and its own writes; the unique      *)
(* columns of models.py are enforced by the store when a row is written.   *)
(***************************************************************************)
EXTENDS Integers, Sequences, FiniteSets, TLC

\* ------------------------------------------------------------------ bounds
\* Longest uploaded file (data rows) of the sequential and row specifications.
MaxRows == 2
\* Longest uploaded file (data rows) of each of the concurrent imports.
MaxConcRows == 1
\* Clock ticks per second: the clock is finer than a token's whole-second exp.
TicksPerSecond == 2
\* The clock is observed up to this many ticks after each sampled instant.
MaxDrift == 5

\* ------------------------------------------------------- models.py: enums
\* enum label (the CSV's text) -> member name, per enum class.
SourceMembers ==
    ("Referral" :> "REFERRAL") @@ ("Website" :> "WEBSITE")
    @@ ("Cold Call" :> "COLD_CALL") @@ ("Event" :> "EVENT")
InterestMembers ==
    ("Low" :> "LOW") @@ ("Medium" :> "MEDIUM") @@ ("High" :> "HIGH")
StatusMembers ==
    ("New" :> "NEW") @@ ("Contacted" :> "CONTACTED")
    @@ ("Qualified" :> "QUALIFIED") @@ ("Closed" :> "CLOSED")

\* Enum(value): the member whose value is the label, or a ValueError.
ValueError == "ValueError"
EnumLookup(members, label) ==
    IF label \in DOMAIN members THEN members[label] ELSE ValueError
Source(label) == EnumLookup(SourceMembers, label)
Interest(label) == EnumLookup(InterestMembers, label)
Status(label) == EnumLookup(StatusMembers, label)

\* ---------------------------------------------------------- the processes
\* Two requests: each has its own session (get_db).
Procs == {1, 2}
\* Python's None and SQL's NULL where an id is expected (ids start at 1).
None == 0

\* ------------------------------------------------------------- CSV inputs
required_columns ==
    {"Lead Name", "Contact Information", "Source", "Interest Level", "Status",
     "Assigned Salesperson"}

Row(n, c, s, i, st, sp) ==
    ("Lead Name" :> n) @@ ("Contact Information" :> c) @@ ("Source" :> s)
    @@ ("Interest Level" :> i) @@ ("Status" :> st)
    @@ ("Assigned Salesperson" :> sp)

\* All sequences over S of length at most n.
SeqsUpTo(S, n) == UNION {[1..k -> S] : k \in 0..n}

\* Rows of the sequential specification: valid rows over two contacts and an
\* optional salesperson, and the same rows with a label that is no Source.
RowsSeq ==
    {Row("Ann", c, s, "High", "New", sp) :
        c \in {"a", "b"}, s \in {"Website", "Unknown"}, sp \in {"", "Sam"}}
\* Rows of the row-validation specification: empty and blank required fields,
\* and a bad label in each of the three enum columns.
RowsVal ==
    {Row(n, c, "Website", "High", "New", "") : n \in {"", " ", "Ann"}, c \in {"", " ", "a"}}
    \cup {Row(n, c, s, "High", "New", "Sam") : n \in {"", "Ann"}, c \in {"", "a"}, s \in {"Unknown", "Event"}}
    \cup {Row(n, "a", "Cold Call", i, st, "") : n \in {"", "Ann"}, i \in {"Huge", "Low"}, st \in {"Open", "Closed"}}
\* Rows of the concurrent specification: valid rows only.
RowsConc ==
    {Row("Ann", c, "Website", "High", "New", sp) : c \in {"a", "b"}, sp \in {"", "Sam"}}

\* An upload: the file name, the header's columns (NoHeader: an empty file)
\* and the data rows (pandas.read_csv(dtype=str).fillna('')).
NoHeader == {"<empty file>"}
Upload(fn, cols, rows) == [filename |-> fn, columns |-> cols, rows |-> rows]
BadUploads ==
    {Upload("leads.txt", required_columns, <<>>),
     Upload("leads.csv", NoHeader, <<>>),
     Upload("leads.csv", required_columns \ {"Status"}, <<>>)}
UploadsSeq ==
    {Upload("leads.csv", required_columns, r) : r \in SeqsUpTo(RowsSeq, MaxRows)}
UploadsVal ==
    {Upload("leads.csv", required_columns, r) : r \in SeqsUpTo(RowsVal, MaxRows)}
    \cup BadUploads
UploadsConc ==
    {Upload("leads.csv", required_columns, r) : r \in SeqsUpTo(RowsConc, MaxConcRows)}

\* str.endswith(".csv"), over the file names of the model.
EndsWithCsv(fn) == fn \in {"leads.csv"}

\* Mutant of unique: the column as it is, a name once per row.
unique_NoDedupe(s) == s
\* df[col].unique(): the distinct values in order of first appearance.
RECURSIVE unique(_)
unique(s) ==
    IF s = <<>> THEN <<>>
    ELSE LET r == unique(SubSeq(s, 1, Len(s) - 1))
             x == s[Len(s)]
         IN  IF \E k \in 1..Len(r) : r[k] = x THEN r ELSE Append(r, x)
ColumnOf(rows, col) == [k \in 1..Len(rows) |-> rows[k][col]]

\* ------------------------------------------------------------------ state
VARIABLES
    db,      \* the committed store: leads, sales_persons and the two id sequences
    sess,    \* sess[p]: the uncommitted writes of request p's session
    pc,      \* pc[p]: where request p stands in load_data_file
    req,     \* req[p]: the locals of request p's load_data_file call
    start,   \* start[p]: the committed leads and sales_persons when p's import began
    clock,   \* the wall clock (datetime.utcnow()), in ticks
    token,   \* the token last issued or tampered with (NoToken before any)
    issued,  \* that token's issue: its subject, its expire instant, and whether
             \* it is still as issued
    verdict  \* what verify_token last returned, and when it was asked

vars == <<db, sess, pc, req, start, clock, token, issued, verdict>>
importVars == <<db, sess, pc, req, start>>
tokenVars == <<clock, token, issued, verdict>>

\* ------------------------------------------------------------ models.py
\* Lead: the columns of table "leads" (lead_data plus the primary key).
LeadRow(id, data) ==
    [id |-> id, name |-> data.name,
     contact_information |-> data.contact_information,
     source |-> data.source, interest |-> data.interest, status |-> data.status,
     assigned_salesperson_name |-> data.assigned_salesperson_name,
     salesperson_id |-> data.salesperson_id]
\* SalesPerson: the columns of table "sales_persons".
SalesPersonRow(id, name, hashed_password) ==
    [id |-> id, name |-> name, hashed_password |-> hashed_password]

\* Mutant of LeadUniqueViolation: the column is not unique.
LeadUniqueViolation_Off(held, cs) == FALSE
\* Lead.contact_information is declared unique=True: writing rows with the
\* contacts cs (a sequence) into a table already holding `held` violates it
\* when a contact is held already or occurs twice in cs.
LeadUniqueViolation(held, cs) ==
    \/ \E k \in 1..Len(cs) : cs[k] \in held
    \/ \E j, k \in 1..Len(cs) : j # k /\ cs[j] = cs[k]
\* SalesPerson.name is declared unique=True.
SalesPersonUniqueViolation(held, name) == name \in held

EmptySession == [sales_persons |-> {}, leads |-> {}, updates |-> <<>>]

\* ------------------------------------------------------- session queries
\* db.query(SalesPerson).filter(SalesPerson.name == name).first(): the session
\* sees the committed rows and the rows it has flushed itself.
\* The result is the set of matching rows; First takes one, as .first() does.
QuerySalesPerson(p, name) ==
    {s \in db.sales_persons \cup sess[p].sales_persons : s.name = name}
First(hits) == CHOOSE h \in hits : TRUE
\* Mutant of QueryContacts: the snapshot misses the committed leads.
QueryContacts_OwnSessionOnly(p) == {l.contact_information : l \in sess[p].leads}
\* {contact[0] for contact in db.query(Lead.contact_information).all()}
QueryContacts(p) ==
    {l.contact_information : l \in db.leads \cup sess[p].leads}
\* db.query(Lead).filter(Lead.contact_information == contact_info).first()
QueryLead(p, contact_info) ==
    {l \in db.leads \cup sess[p].leads : l.contact_information = contact_info}

\* Another session holds an uncommitted row with one of these unique values:
\* the store makes the writer wait until that session commits or rolls back.
LeadWriteBlocked(p, cs) ==
    \E q \in Procs \ {p} : \E l \in sess[q].leads :
        \E k \in 1..Len(cs) : cs[k] = l.contact_information
SalesPersonWriteBlocked(p, name) ==
    \E q \in Procs \ {p} : \E s \in sess[q].sales_persons : s.name = name

\* ------------------------------------------------------ request locals
\* The locals of load_data_file before the file is read (lines 264-268).
NewRequest(u) ==
    [file |-> u, df |-> <<>>, unique_salespersons |-> <<>>, sp_i |-> 1,
     salesperson_map |-> [n \in {} |-> 0], existing_contacts |-> {},
     index |-> 0, leads_to_insert |-> <<>>, leads_to_update |-> <<>>,
     errors |-> <<>>, rows_processed |-> 0, duplicates_found |-> 0,
     rows_imported |-> 0, rows_updated |-> 0, status_code |-> 0]
NoFile == Upload("", {}, <<>>)

\* dict.get(key): None when the key is absent.
Get(map, key) == IF key \in DOMAIN map THEN map[key] ELSE None
\* dict.pop("id") on a lead_data dict: the dict without its "id" entry.
PopId(d) == [f \in DOMAIN d \ {"id"} |-> d[f]]

\* Where the loop over unique_salespersons goes after entry i.
AfterSalesperson(r, i) ==
    IF i < Len(r.unique_salespersons) THEN "resolve" ELSE "snapshot"

\* ------------------------------------------------------------ the import
\* Lines 256-283: the file-type check, read_csv, the column check and the
\* distinct salesperson names. A 400 leaves no result.
ReceiveUpload(p, u) ==
    /\ pc[p] = "idle"
    /\ start' = [start EXCEPT ![p] = [leads |-> db.leads, sales_persons |-> db.sales_persons]]
    /\ LET r0 == NewRequest(u)
           names == unique(ColumnOf(u.rows, "Assigned Salesperson"))
       IN  IF ~EndsWithCsv(u.filename) \/ u.columns = NoHeader
           THEN /\ req' = [req EXCEPT ![p] = [r0 EXCEPT !.status_code = 400]]
                /\ pc' = [pc EXCEPT ![p] = "rejected"]
           ELSE IF ~(required_columns \subseteq u.columns)
           THEN /\ req' = [req EXCEPT ![p] =
                        [r0 EXCEPT !.df = u.rows, !.rows_processed = Len(u.rows),
                                   !.status_code = 400]]
                /\ pc' = [pc EXCEPT ![p] = "rejected"]
           ELSE /\ req' = [req EXCEPT ![p] =
                        [r0 EXCEPT !.df = u.rows, !.rows_processed = Len(u.rows),
                                   !.unique_salespersons = names]]
                /\ pc' = [pc EXCEPT ![p] =
                        IF names = <<>> THEN "snapshot" ELSE "resolve"]
    /\ UNCHANGED <<db, sess, tokenVars>>

\* Lines 288-296: one turn of the loop over unique_salespersons up to the
\* lookup: an empty name is skipped, a found record is mapped, and for a name
\* with no record the new SalesPerson is added to the session.
LookupSalesperson(p) ==
    /\ pc[p] = "resolve"
    /\ LET r == req[p]
           salesperson_name == r.unique_salespersons[r.sp_i]
           existing_salesperson == QuerySalesPerson(p, salesperson_name)
       IN  IF salesperson_name = ""
           THEN /\ req' = [req EXCEPT ![p].sp_i = r.sp_i + 1]
                /\ pc' = [pc EXCEPT ![p] = AfterSalesperson(r, r.sp_i)]
           ELSE IF existing_salesperson # {}
           THEN /\ req' = [req EXCEPT ![p].sp_i = r.sp_i + 1,
                                      ![p].salesperson_map =
                                          (salesperson_name :> First(existing_salesperson).id) @@ @]
                /\ pc' = [pc EXCEPT ![p] = AfterSalesperson(r, r.sp_i)]
           ELSE /\ req' = req
                /\ pc' = [pc EXCEPT ![p] = "flush"]
    /\ UNCHANGED <<db, sess, start, tokenVars>>

\* The session is closed without a commit (get_db's finally): its writes are
\* dropped. db.rollback() does the same.
Rollback(p) == [sess EXCEPT ![p] = EmptySession]

\* Lines 299-306: db.add(new_salesperson); db.flush(). The INSERT waits for a
\* session holding the same name uncommitted; it raises when the name is
\* committed by now, or when the store fails (dbError). The exception leaves
\* the outer try as a 400 and the session is closed.
FlushSalesperson(p, dbError) ==
    /\ pc[p] = "flush"
    /\ LET r == req[p]
           salesperson_name == r.unique_salespersons[r.sp_i]
           new_id == db.sp_id_seq + 1
       IN  /\ ~SalesPersonWriteBlocked(p, salesperson_name)
           /\ IF dbError \/ SalesPersonUniqueViolation(
                                {s.name : s \in db.sales_persons}, salesperson_name)
              THEN /\ sess' = Rollback(p)
                   /\ req' = [req EXCEPT ![p].status_code = 400]
                   /\ pc' = [pc EXCEPT ![p] = "rejected"]
                   /\ db' = db
              ELSE /\ sess' = [sess EXCEPT ![p].sales_persons =
                                @ \cup {SalesPersonRow(new_id, salesperson_name, "temporary_hash")}]
                   /\ db' = [db EXCEPT !.sp_id_seq = new_id]
                   /\ req' = [req EXCEPT ![p].sp_i = r.sp_i + 1,
                                         ![p].salesperson_map =
                                             (salesperson_name :> new_id) @@ @]
                   /\ pc' = [pc EXCEPT ![p] = AfterSalesperson(r, r.sp_i)]
    /\ UNCHANGED <<start, tokenVars>>

\* Lines 308-310: the snapshot of the persisted contacts.
SnapshotContacts(p) ==
    /\ pc[p] = "snapshot"
    /\ req' = [req EXCEPT ![p].existing_contacts = QueryContacts(p)]
    /\ pc' = [pc EXCEPT ![p] = IF req[p].df = <<>> THEN "insert" ELSE "rows"]
    /\ UNCHANGED <<db, sess, start, tokenVars>>

\* Lines 316-327: the lead_data dict of a row (the enum members already looked up).
LeadData(row, salesperson_id) ==
    [name |-> row["Lead Name"],
     contact_information |-> row["Contact Information"],
     source |-> Source(row["Source"]),
     interest |-> Interest(row["Interest Level"]),
     status |-> Status(row["Status"]),
     assigned_salesperson_name |-> row["Assigned Salesperson"],
     salesperson_id |-> salesperson_id]
\* lead_data["id"] = existing_lead.id
WithId(data, id) == ("id" :> id) @@ data

\* The first of the three enum lookups of lines 322-324 to raise, in the order
\* the dict literal evaluates them, as <<enum class, label>>; <<>> if none does.
FirstEnumError(row) ==
    IF Source(row["Source"]) = ValueError THEN <<"Source", row["Source"]>>
    ELSE IF Interest(row["Interest Level"]) = ValueError
         THEN <<"Interest", row["Interest Level"]>>
    ELSE IF Status(row["Status"]) = ValueError THEN <<"Status", row["Status"]>>
    ELSE <<>>

\* Mutant of MissingFieldError: the position is one short.
MissingFieldError_OffByOne(index) ==
    [row |-> index + 1, kind |-> "Missing required field (Name or Contact Info).",
     detail |-> <<>>]
\* The error messages, as (row position, kind, detail).
MissingFieldError(index) ==
    [row |-> index + 2, kind |-> "Missing required field (Name or Contact Info).",
     detail |-> <<>>]
InvalidEnumError(index, ve) ==
    [row |-> index + 2, kind |-> "Invalid enum value", detail |-> ve]
RowProcessingError(index) ==
    [row |-> index + 2, kind |-> "Error processing row", detail |-> <<>>]
DatabaseError == [row |-> 0, kind |-> "Database error prevented import", detail |-> <<>>]

\* Mutant of MissingRequired: only the name is required.
MissingRequired_NameOnly(lead_data) == lead_data.name = ""
\* Lines 329-333: not lead_data["name"] or not lead_data["contact_information"].
MissingRequired(lead_data) ==
    lead_data.name = "" \/ lead_data.contact_information = ""

\* Mutant of ClassifyDuplicate: the duplicate row is queued for insert.
ClassifyDuplicate_AsInsert(r, lead_data, existing_lead) ==
    [r EXCEPT !.duplicates_found = @ + 1, !.leads_to_insert = Append(@, lead_data)]
\* Mutant of ClassifyDuplicate: the row is counted only when a persisted Lead
\* is found.
ClassifyDuplicate_CountsOnlyPersisted(r, lead_data, existing_lead) ==
    IF existing_lead = {} THEN r
    ELSE [r EXCEPT !.duplicates_found = @ + 1,
                   !.leads_to_update =
                       Append(@, ("id" :> (CHOOSE h \in existing_lead : TRUE).id) @@ lead_data)]
\* Mutant of ClassifyNew: the contact is not added to the running set.
ClassifyNew_NoRunningSet(r, lead_data) ==
    [r EXCEPT !.leads_to_insert = Append(@, lead_data)]
\* Lines 336-341: the contact is in the running set. The row is counted, and
\* joins leads_to_update only if a persisted Lead has the contact.
ClassifyDuplicate(r, lead_data, existing_lead) ==
    [r EXCEPT !.duplicates_found = @ + 1,
              !.leads_to_update =
                  IF existing_lead # {}
                  THEN Append(@, WithId(lead_data, First(existing_lead).id))
                  ELSE @]
\* Lines 342-345: a new contact joins leads_to_insert and the running set.
ClassifyNew(r, lead_data) ==
    [r EXCEPT !.leads_to_insert = Append(@, lead_data),
              !.existing_contacts = @ \cup {lead_data.contact_information}]

\* Lines 312-355: one turn of the loop over the rows. The enum lookups come
\* first (building lead_data), then the required-field check, then the
\* classification against the running set of contacts.
ProcessRow(p) ==
    /\ pc[p] = "rows"
    /\ LET r == req[p]
           index == r.index
           row == r.df[index + 1]
           contact_info == row["Contact Information"]
           salesperson_name == row["Assigned Salesperson"]
           salesperson_id ==
               IF salesperson_name # "" THEN Get(r.salesperson_map, salesperson_name)
               ELSE None
           ve == FirstEnumError(row)
           lead_data == LeadData(row, salesperson_id)
           r1 == IF ve # <<>>
                 THEN [r EXCEPT !.errors = Append(@, InvalidEnumError(index, ve))]
                 ELSE IF MissingRequired(lead_data)
                 THEN [r EXCEPT !.errors = Append(@, MissingFieldError(index))]
                 ELSE IF contact_info \in r.existing_contacts
                 THEN ClassifyDuplicate(r, lead_data, QueryLead(p, contact_info))
                 ELSE ClassifyNew(r, lead_data)
       IN  /\ req' = [req EXCEPT ![p] = [r1 EXCEPT !.index = index + 1]]
           /\ pc' = [pc EXCEPT ![p] = IF index + 1 < Len(r.df) THEN "rows" ELSE "insert"]
    /\ UNCHANGED <<db, sess, start, tokenVars>>

\* Lines 336-338 and 352-355: a turn of the loop in which the query of line
\* 338 raises (the store fails). Only a row that passed both checks and whose
\* contact is in the running set reaches the query; duplicates_found is
\* already incremented; the exception is caught in the loop, recorded, and
\* the loop goes on.
ProcessRowQueryError(p) ==
    /\ pc[p] = "rows"
    /\ LET r == req[p]
           index == r.index
           row == r.df[index + 1]
           contact_info == row["Contact Information"]
       IN  /\ FirstEnumError(row) = <<>>
           /\ ~MissingRequired(LeadData(row, None))
           /\ contact_info \in r.existing_contacts
           /\ req' = [req EXCEPT ![p] =
                        [r EXCEPT !.duplicates_found = @ + 1,
                                  !.errors = Append(@, RowProcessingError(index)),
                                  !.index = index + 1]]
           /\ pc' = [pc EXCEPT ![p] = IF index + 1 < Len(r.df) THEN "rows" ELSE "insert"]
    /\ UNCHANGED <<db, sess, start, tokenVars>>

\* Mutant of FailedTransaction: the duplicate count is reset with the others.
FailedTransaction_ResetsDuplicates(r) ==
    [r EXCEPT !.errors = Append(@, [row |-> 0, kind |-> "Database error prevented import", detail |-> <<>>]),
              !.rows_imported = 0, !.rows_updated = 0, !.duplicates_found = 0,
              !.status_code = 200]
\* Mutant of FailedTransaction: the counts are not reset.
FailedTransaction_KeepsCounts(r) ==
    [r EXCEPT !.errors = Append(@, [row |-> 0, kind |-> "Database error prevented import", detail |-> <<>>]),
              !.status_code = 200]
\* Lines 389-394: the except branch of the transaction.
FailedTransaction(r) ==
    [r EXCEPT !.errors = Append(@, DatabaseError),
              !.rows_imported = 0, !.rows_updated = 0, !.status_code = 200]

\* The rows bulk_insert_mappings writes: each mapping with the next id of the
\* table's sequence.
InsertedRows(mappings, seq) ==
    {LeadRow(seq + k, mappings[k]) : k \in 1..Len(mappings)}

\* Lines 373-376: db.bulk_insert_mappings(Lead, leads_to_insert). The INSERT
\* waits for a session holding one of the contacts uncommitted, and raises on
\* a contact already committed (the unique column) or a store failure.
BulkInsert(p, dbError) ==
    /\ pc[p] = "insert"
    /\ LET r == req[p]
           cs == [k \in 1..Len(r.leads_to_insert) |->
                     r.leads_to_insert[k].contact_information]
       IN  IF r.leads_to_insert = <<>>
           THEN /\ pc' = [pc EXCEPT ![p] = "update"]
                /\ UNCHANGED <<db, sess, req>>
           ELSE /\ ~LeadWriteBlocked(p, cs)
                /\ IF dbError \/ LeadUniqueViolation(
                                    {l.contact_information : l \in db.leads}, cs)
                   THEN /\ sess' = Rollback(p)
                        /\ req' = [req EXCEPT ![p] = FailedTransaction(r)]
                        /\ pc' = [pc EXCEPT ![p] = "done"]
                        /\ db' = db
                   ELSE /\ sess' = [sess EXCEPT ![p].leads =
                                    @ \cup InsertedRows(r.leads_to_insert, db.lead_id_seq)]
                        /\ db' = [db EXCEPT !.lead_id_seq = @ + Len(r.leads_to_insert)]
                        /\ req' = [req EXCEPT ![p].rows_imported = Len(r.leads_to_insert)]
                        /\ pc' = [pc EXCEPT ![p] = "update"]
    /\ UNCHANGED <<start, tokenVars>>

\* leads_to_update after the first n turns of the loop of lines 381-383: each
\* of these dicts has lost its "id".
PoppedPrefix(list, n) ==
    [k \in 1..Len(list) |-> IF k <= n THEN PopId(list[k]) ELSE list[k]]
\* The UPDATE statements of the loop, in order: (lead_id, values).
UpdateStatements(list) ==
    [k \in 1..Len(list) |-> [lead_id |-> list[k].id, values |-> PopId(list[k])]]

\* Lines 379-384: the per-row updates. failAt is the turn whose UPDATE raises
\* (0: none does); its dict has been popped already.
UpdateLeads(p, failAt) ==
    /\ pc[p] = "update"
    /\ LET r == req[p]
       IN  /\ failAt \in 0..Len(r.leads_to_update)
           /\ IF failAt = 0
              THEN /\ sess' = [sess EXCEPT ![p].updates =
                                @ \o UpdateStatements(r.leads_to_update)]
                   /\ req' = [req EXCEPT
                                ![p].leads_to_update = PoppedPrefix(@, Len(@)),
                                ![p].rows_updated =
                                    IF r.leads_to_update = <<>> THEN @
                                    ELSE Len(r.leads_to_update)]
                   /\ pc' = [pc EXCEPT ![p] = "commit"]
              ELSE /\ sess' = Rollback(p)
                   /\ req' = [req EXCEPT ![p] = FailedTransaction(
                                [r EXCEPT !.leads_to_update = PoppedPrefix(@, failAt)])]
                   /\ pc' = [pc EXCEPT ![p] = "done"]
    /\ UNCHANGED <<db, start, tokenVars>>

\* One UPDATE leads SET values WHERE id = lead_id, on a set of rows.
ApplyUpdate(leads, u) ==
    {IF l.id = u.lead_id THEN LeadRow(l.id, u.values) ELSE l : l \in leads}
RECURSIVE ApplyUpdates(_, _)
ApplyUpdates(leads, us) ==
    IF us = <<>> THEN leads
    ELSE ApplyUpdates(ApplyUpdate(leads, Head(us)), Tail(us))

\* What db.commit() makes of the store: the session's inserts and updates.
Committed(p) ==
    [db EXCEPT !.sales_persons = @ \cup sess[p].sales_persons,
               !.leads = ApplyUpdates(@ \cup sess[p].leads, sess[p].updates)]

\* Line 386: db.commit(), or its failure (lines 389-394).
Commit(p, dbError) ==
    /\ pc[p] = "commit"
    /\ IF dbError
       THEN /\ sess' = Rollback(p)
            /\ req' = [req EXCEPT ![p] = FailedTransaction(req[p])]
            /\ db' = db
       ELSE /\ db' = Committed(p)
            /\ sess' = [sess EXCEPT ![p] = EmptySession]
            /\ req' = [req EXCEPT ![p].status_code = 200]
    /\ pc' = [pc EXCEPT ![p] = "done"]
    /\ UNCHANGED <<start, tokenVars>>

\* --------------------------------------------------------------- tokens
\* main.py line 36.
ACCESS_TOKEN_EXPIRE_MINUTES == 30
SECRET_KEY == "glimpse-key-for-jwt-tokens"
\* timedelta(minutes=m) and timedelta(seconds=s), in ticks.
Minutes(m) == m * 60 * TicksPerSecond
Seconds(s) == s * TicksPerSecond
\* The expires_delta arguments of the model: absent, zero (falsy in Python),
\* one second, and login's timedelta(minutes=ACCESS_TOKEN_EXPIRE_MINUTES).
NoDelta == -1
ExpiresDeltas == {NoDelta, 0, Seconds(1), Minutes(ACCESS_TOKEN_EXPIRE_MINUTES)}
\* The "sub" of the data dict; NoSub: the dict has no "sub".
NoSub == "<no sub>"
Subjects == {"admin@example.com", "eve@example.com"}
NoToken == [claims |-> [sub |-> NoSub, exp |-> 0], signature |-> <<>>]
NoVerdict == [asked |-> FALSE, result |-> {}]

\* The instants at which the clock is observed: around the issue of a token
\* and around the expiry of each lifetime.
Instants ==
    {d + k : d \in {0, Seconds(1), Minutes(ACCESS_TOKEN_EXPIRE_MINUTES)}, k \in 0..MaxDrift}

\* timegm(dt.utctimetuple()): a datetime as whole seconds, the fraction dropped
\* (jose's encode does this to "exp"; its exp check does this to utcnow()).
IntDate(ticks) == ticks \div TicksPerSecond
\* The HS256 signature of the claims under a key: equal only for equal claims
\* and equal keys.
Sign(claims, key) == <<claims, key>>

\* Lines 120-123: the expire datetime of a token made at time now.
ExpireAt(expires_delta, now) ==
    IF expires_delta # NoDelta /\ expires_delta # 0
    THEN now + expires_delta
    ELSE now + Minutes(ACCESS_TOKEN_EXPIRE_MINUTES)
\* create_access_token (lines 117-126) at time now.
create_access_token(sub, expires_delta, now) ==
    LET expire == ExpireAt(expires_delta, now)
        to_encode == [sub |-> sub, exp |-> IntDate(expire)]
    IN  [claims |-> to_encode, signature |-> Sign(to_encode, SECRET_KEY)]

\* Mutant of Expired: a token is expired from the second of its exp on.
Expired_FromExpOn(exp, now) == exp <= now \div TicksPerSecond
\* jwt.decode(token, SECRET_KEY, algorithms=[ALGORITHM]) raises a JWTError
\* (line 131): on a signature that is not the key's, and on an expired token,
\* which for jose is exp < now in whole seconds.
SignatureInvalid(t) == t.signature # Sign(t.claims, SECRET_KEY)
Expired(exp, now) == exp < IntDate(now)
JWTError(t, now) == SignatureInvalid(t) \/ Expired(t.claims.exp, now)

\* verify_token (lines 128-140) at time now: {} is None, else the one dict.
verify_token(t, now) ==
    IF JWTError(t, now) THEN {}
    ELSE IF t.claims.sub = NoSub THEN {}
    ELSE {[email |-> t.claims.sub, exp |-> t.claims.exp]}

\* A token is issued now.
IssueToken(sub, expires_delta) ==
    /\ token' = create_access_token(sub, expires_delta, clock)
    /\ issued' = [sub |-> sub, expire |-> ExpireAt(expires_delta, clock), intact |-> TRUE]
    /\ verdict' = NoVerdict
    /\ UNCHANGED <<clock, importVars>>

\* Time passes.
AdvanceClock(t) ==
    /\ t \in Instants /\ t > clock
    /\ clock' = t
    /\ verdict' = NoVerdict
    /\ UNCHANGED <<token, issued, importVars>>

\* Someone without SECRET_KEY alters an issued token: another subject, a
\* later exp, or a signature made with another key.
Forged(t, how, s) ==
    CASE how = "sub" -> [t EXCEPT !.claims.sub = s]
      [] how = "exp" -> [t EXCEPT !.claims.exp = @ + 1]
      [] OTHER -> [t EXCEPT !.signature = Sign(t.claims, "attacker-key")]
TamperToken(how, s) ==
    /\ token # NoToken
    /\ issued.intact
    /\ Forged(token, how, s) # token
    /\ token' = Forged(token, how, s)
    /\ issued' = [issued EXCEPT !.intact = FALSE]
    /\ verdict' = NoVerdict
    /\ UNCHANGED <<clock, importVars>>

\* The token is presented to verify_token now.
VerifyToken ==
    /\ token # NoToken
    /\ verdict' = [asked |-> TRUE, result |-> verify_token(token, clock)]
    /\ UNCHANGED <<clock, token, issued, importVars>>

\* ------------------------------------------------------- specifications
OldLead(id, contact) ==
    [id |-> id, name |-> "Old", contact_information |-> contact, source |-> "EVENT",
     interest |-> "LOW", status |-> "CONTACTED", assigned_salesperson_name |-> "",
     salesperson_id |-> None]
\* The stores an import may find: any of two older leads, with or without a
\* salesperson record named Sam.
InitStores ==
    {[leads |-> L, sales_persons |-> S, lead_id_seq |-> 2, sp_id_seq |-> 1] :
        L \in SUBSET {OldLead(1, "a"), OldLead(2, "b")},
        S \in SUBSET {SalesPersonRow(1, "Sam", "hash-of-sam")}}
EmptyStore == [leads |-> {}, sales_persons |-> {}, lead_id_seq |-> 0, sp_id_seq |-> 0]

InitWith(stores) ==
    /\ db \in stores
    /\ sess = [p \in Procs |-> EmptySession]
    /\ pc = [p \in Procs |-> "idle"]
    /\ req = [p \in Procs |-> NewRequest(NoFile)]
    /\ start = [p \in Procs |-> [leads |-> {}, sales_persons |-> {}]]
    /\ clock = 0
    /\ token = NoToken
    /\ issued = [sub |-> NoSub, expire |-> 0, intact |-> TRUE]
    /\ verdict = NoVerdict

\* The steps of a load_data_file call once the upload is received.
ImportStep(p) ==
    \/ LookupSalesperson(p)
    \/ \E e \in BOOLEAN : FlushSalesperson(p, e)
    \/ SnapshotContacts(p)
    \/ ProcessRow(p)
    \/ \E e \in BOOLEAN : BulkInsert(p, e)
    \/ \E k \in 0..MaxRows + MaxConcRows : UpdateLeads(p, k)
    \/ \E e \in BOOLEAN : Commit(p, e)

\* One file uploaded, and the same file uploaded again once the first call
\* has returned.
FirstUpload == pc[1] = "idle" /\ \E u \in UploadsSeq : ReceiveUpload(1, u)
SecondUpload == pc[1] = "done" /\ ReceiveUpload(2, req[1].file)
Init == InitWith(InitStores)
Next == FirstUpload \/ SecondUpload \/ \E p \in Procs : ImportStep(p)
Spec == Init /\ [][Next]_vars

\* One file of rows of every kind, good and bad, into a store with one lead.
RowsUpload == pc[1] = "idle" /\ \E u \in UploadsVal : ReceiveUpload(1, u)
InitRows == InitWith({s \in InitStores : Cardinality(s.leads) = 1 /\ s.sales_persons = {}})
NextRows == RowsUpload \/ ImportStep(1)
SpecRows == InitRows /\ [][NextRows]_vars

\* The same, where the store may also fail under a row's query.
NextRowErr == RowsUpload \/ ImportStep(1) \/ ProcessRowQueryError(1)
SpecRowErr == InitRows /\ [][NextRowErr]_vars

\* Two imports at once, each in its own session.
ConcUpload == \E p \in Procs : pc[p] = "idle" /\ \E u \in UploadsConc : ReceiveUpload(p, u)
InitConc == InitWith({s \in InitStores : OldLead(2, "b") \notin s.leads})
NextConc == ConcUpload \/ \E p \in Procs : ImportStep(p)
SpecConc == InitConc /\ [][NextConc]_vars

\* Tokens issued, altered and verified as time passes.
InitToken == InitWith({EmptyStore})
NextToken ==
    \/ \E s \in Subjects \cup {NoSub} : \E d \in ExpiresDeltas : IssueToken(s, d)
    \/ \E t \in Instants : AdvanceClock(t)
    \/ \E how \in {"sub", "exp", "sig"} : \E s \in Subjects : TamperToken(how, s)
    \/ VerifyToken
SpecToken == InitToken /\ [][NextToken]_vars

\* =============================================================== claims
\* A valid row: non-empty name and contact, and three valid enum labels.
ValidRow(row) ==
    /\ row["Lead Name"] # "" /\ row["Contact Information"] # ""
    /\ row["Source"] \in DOMAIN SourceMembers
    /\ row["Interest Level"] \in DOMAIN InterestMembers
    /\ row["Status"] \in DOMAIN StatusMembers
\* The positions (1-based) of the valid rows the loop has been through.
ValidDone(p) == {k \in 1..req[p].index : ValidRow(req[p].df[k])}
ContactOfRow(p, k) == req[p].df[k]["Contact Information"]
\* The contacts persisted when p's import began.
StartContacts(p) == {l.contact_information : l \in start[p].leads}
\* The positions of a list of lead_data dicts that carry the contact c.
EntriesWith(list, c) == {j \in 1..Len(list) : list[j].contact_information = c}
\* The call has returned a result whose transaction failed / succeeded.
Failed(p) == pc[p] = "done" /\ \E j \in 1..Len(req[p].errors) : req[p].errors[j] = DatabaseError
Succeeded(p) == pc[p] = "done" /\ ~Failed(p)

PersistedDups(p) == {k \in ValidDone(p) : ContactOfRow(p, k) \in StartContacts(p)}
InFileDups(p) ==
    {k \in ValidDone(p) :
        /\ ContactOfRow(p, k) \notin StartContacts(p)
        /\ \E j \in ValidDone(p) : j < k /\ ContactOfRow(p, j) = ContactOfRow(p, k)}
C3_FailedCommitKeepsNothing ==
    [][\A p \in Procs :
          (pc[p] # "done" /\ pc'[p] = "done"
           /\ \E j \in 1..Len(req'[p].errors) : req'[p].errors[j] = DatabaseError)
          => /\ req'[p].rows_imported = 0 /\ req'[p].rows_updated = 0
             /\ db'.leads = start[p].leads
             /\ db'.sales_persons = start[p].sales_persons
             /\ sess'[p] = EmptySession]_vars
C3_Witness ==
    \E p \in Procs :
        /\ Failed(p)
        /\ req[p].salesperson_map # [n \in {} |-> 0]
        /\ start[p].sales_persons = {}
        /\ req[p].leads_to_insert # <<>> /\ req[p].leads_to_update # <<>>
        /\ \A j \in 1..Len(req[p].leads_to_update) : "id" \notin DOMAIN req[p].leads_to_update[j]

\* C4 as claimed: the second upload of a file reports duplicates_found equal to
\* the first upload's rows_imported, and rows_imported = 0.
C4_SecondDuplicatesEqualFirstImported ==
    (Succeeded(1) /\ Succeeded(2) /\ req[2].file = req[1].file)
    => /\ req[2].duplicates_found = req[1].rows_imported
       /\ req[2].rows_imported = 0
\* C4 amended: the second upload reports duplicates_found equal to the first
\* upload's rows_imported plus the first upload's duplicates_found (every valid
\* row), and rows_imported = 0.
C4_SecondDuplicatesEqualFirstValid ==
    (Succeeded(1) /\ Succeeded(2) /\ req[2].file = req[1].file)
    => /\ req[2].duplicates_found = req[1].rows_imported + req[1].duplicates_found
       /\ req[2].rows_imported = 0
C4_Witness ==
    /\ Succeeded(1) /\ Succeeded(2) /\ req[2].file = req[1].file
    /\ req[1].rows_imported > 0 /\ req[1].duplicates_found > 0

\* The SalesPerson records that exist now and did not when p's import began.
NewSalesPersons(p) ==
    (db.sales_persons \cup sess[p].sales_persons) \ start[p].sales_persons
\* The lead_data dicts p has classified so far.
Classified(p) ==
    {req[p].leads_to_insert[j] : j \in 1..Len(req[p].leads_to_insert)}
    \cup {PopId(req[p].leads_to_update[j]) : j \in 1..Len(req[p].leads_to_update)}
\* C5: a salesperson name is looked up or created once per call (the loop's
\* list holds each name once), at most one record is created per name and none
\* for a name that had one or for the empty name, and all rows with the name
\* carry one salesperson_id, that of the name's record; rows with no name
\* carry None.
C5_SalespersonResolvedOnce ==
    \A p \in Procs :
        /\ \A i, j \in 1..Len(req[p].unique_salespersons) :
             i # j => req[p].unique_salespersons[i] # req[p].unique_salespersons[j]
        /\ \A s, t \in NewSalesPersons(p) : s.name = t.name => s = t
        /\ \A s \in NewSalesPersons(p) :
             s.name # "" /\ s.name \notin {t.name : t \in start[p].sales_persons}
        /\ \A d \in Classified(p) :
             IF d.assigned_salesperson_name = "" THEN d.salesperson_id = None
             ELSE Failed(p) \/ \E s \in db.sales_persons \cup sess[p].sales_persons \cup start[p].sales_persons :
                     s.name = d.assigned_salesperson_name /\ s.id = d.salesperson_id
        /\ \A d, e \in Classified(p) :
             d.assigned_salesperson_name = e.assigned_salesperson_name
             => d.salesperson_id = e.salesperson_id
C5_Witness ==
    \E p \in Procs :
        /\ pc[p] = "insert"
        /\ Cardinality(sess[p].sales_persons) = 1
        /\ Len(req[p].leads_to_insert) = 2
        /\ \A j \in 1..2 : req[p].leads_to_insert[j].assigned_salesperson_name = "Sam"

\* The verdict on the token as issued, with a subject, for that subject.
Accepted == \E r \in verdict.result : verdict.result = {r} /\ r.email = issued.sub
\* C6 as claimed: verify_token on an issued token returns the subject when
\* now < expiry, and None when now >= expiry or the token was tampered with.
C6_RoundTripUntilExpiry ==
    (verdict.asked /\ issued.sub \in Subjects)
    => IF ~issued.intact THEN verdict.result = {}
       ELSE IF clock < issued.expire THEN Accepted
       ELSE verdict.result = {}
\* C6 amended: the expiry is compared in whole seconds and the token is still
\* accepted in the second of its expiry: the subject is returned while now's
\* second is at most the expiry's second, None once it is past it or when the
\* token was tampered with.
C6_RoundTripThroughExpirySecond ==
    (verdict.asked /\ issued.sub \in Subjects)
    => IF ~issued.intact THEN verdict.result = {}
       ELSE IF clock \div TicksPerSecond <= issued.expire \div TicksPerSecond
            THEN Accepted
       ELSE verdict.result = {}
C6_Witness ==
    /\ verdict.asked /\ issued.sub \in Subjects /\ issued.intact
    /\ clock >= issued.expire /\ Accepted

\* str.strip(), over the strings of the model.
Trim(str) == IF str = " " THEN "" ELSE str
\* The row errors recorded for the k-th data row (reported as row k + 1).
ErrorsOfRow(p, k) ==
    {req[p].errors[j] : j \in {i \in 1..Len(req[p].errors) : req[p].errors[i].row = k + 1}}
MissingKind == "Missing required field (Name or Contact Info)."
ValidEnums(row) ==
    /\ row["Source"] \in DOMAIN SourceMembers
    /\ row["Interest Level"] \in DOMAIN InterestMembers
    /\ row["Status"] \in DOMAIN StatusMembers
\* C7 as claimed: every row whose name or contact is empty after trimming is
\* rejected with the missing-required-field error, whatever its enum labels.
C7_BlankFieldAlwaysMissingError ==
    \A p \in Procs : \A k \in 1..req[p].index :
        LET row == req[p].df[k]
        IN  (Trim(row["Lead Name"]) = "" \/ Trim(row["Contact Information"]) = "")
            => \E e \in ErrorsOfRow(p, k) : e.kind = MissingKind
\* C7 amended: the field check comes after the enum lookups and does not trim.
\* A row with an invalid enum label gets the invalid-enum error and no other,
\* whatever its name and contact; a row with valid labels gets the
\* missing-required-field error exactly when its name or contact is the empty
\* string; a blank (whitespace-only) value is not empty and draws no error.
C7_EmptyFieldMissingErrorAfterEnums ==
    \A p \in Procs : \A k \in 1..req[p].index :
        LET row == req[p].df[k]
            errs == ErrorsOfRow(p, k)
        IN  IF ~ValidEnums(row)
            THEN Cardinality(errs) = 1 /\ \A e \in errs : e.kind = "Invalid enum value"
            ELSE IF row["Lead Name"] = "" \/ row["Contact Information"] = ""
            THEN Cardinality(errs) = 1 /\ \A e \in errs : e.kind = MissingKind
            ELSE errs = {}
C7_Witness ==
    \E p \in Procs : \E j, k \in 1..req[p].index :
        /\ req[p].df[k]["Lead Name"] = "" /\ ~ValidEnums(req[p].df[k])
        /\ \A e \in ErrorsOfRow(p, k) : e.kind # MissingKind
        /\ req[p].df[j]["Contact Information"] = " " /\ ValidEnums(req[p].df[j])
        /\ req[p].df[j]["Lead Name"] # ""
        /\ ErrorsOfRow(p, j) = {}

\* C8: once the file is read, rows_processed is the number of data rows
\* parsed, however many fail; and once the rows are classified,
\* duplicates_found is the number of duplicate rows, and both stay so through
\* the commit phase, whether it succeeds or fails.
C8_RowsProcessedIndependentOfOutcome ==
    \A p \in Procs :
        /\ pc[p] \in {"resolve", "flush", "snapshot", "rows", "insert", "update", "commit", "done"}
           => req[p].rows_processed = Len(req[p].file.rows)
        /\ pc[p] \in {"insert", "update", "commit", "done"}
           => /\ req[p].index = Len(req[p].file.rows)
              /\ req[p].duplicates_found =
                    Cardinality({k \in ValidDone(p) :
                        \/ ContactOfRow(p, k) \in StartContacts(p)
                        \/ \E j \in ValidDone(p) : j < k /\ ContactOfRow(p, j) = ContactOfRow(p, k)})
C8_Witness ==
    \E p \in Procs :
        /\ Failed(p)
        /\ req[p].rows_processed = 2
        /\ req[p].duplicates_found = 1
        /\ Len(req[p].errors) = 2

\* C9: of two valid rows of a file with the same contact the second is always
\* a duplicate: it is counted in duplicates_found and not appended to
\* leads_to_insert, so leads_to_insert holds each contact once (the first
\* valid row of each contact that was not persisted) and every other valid
\* row is counted.
C9_SecondOccurrenceIsDuplicate ==
    \A p \in Procs :
        LET firsts == {k \in ValidDone(p) :
                         /\ ContactOfRow(p, k) \notin StartContacts(p)
                         /\ ~\E j \in ValidDone(p) : j < k /\ ContactOfRow(p, j) = ContactOfRow(p, k)}
        IN  /\ \A i, j \in 1..Len(req[p].leads_to_insert) :
                 i # j => req[p].leads_to_insert[i].contact_information
                          # req[p].leads_to_insert[j].contact_information
            /\ Len(req[p].leads_to_insert) = Cardinality(firsts)
            /\ req[p].duplicates_found = Cardinality(ValidDone(p) \ firsts)
C9_Witness ==
    \E p \in Procs :
        /\ ValidDone(p) = {1, 2}
        /\ ContactOfRow(p, 1) = ContactOfRow(p, 2)
        /\ ContactOfRow(p, 1) \notin StartContacts(p)
        /\ Len(req[p].leads_to_insert) = 1 /\ req[p].duplicates_found = 1

\* The contacts p has queued for insert.
InsertContacts(p) ==
    {req[p].leads_to_insert[j].contact_information : j \in 1..Len(req[p].leads_to_insert)}
\* C10: under every interleaving of the concurrent imports the committed
\* store never holds two Leads with one contact; of two imports that queued
\* the same new contact for insert at most one commits, and an import whose
\* transaction failed is rolled back whole and reports rows_imported = 0 and
\* rows_updated = 0.
C10_ContactUniqueUnderConcurrency ==
    /\ \A l, m \in db.leads : l.contact_information = m.contact_information => l = m
    /\ \A p, q \in Procs :
         (p # q /\ InsertContacts(p) \cap InsertContacts(q) # {})
         => ~(Succeeded(p) /\ Succeeded(q))
    /\ \A p \in Procs :
         Failed(p) => /\ req[p].rows_imported = 0 /\ req[p].rows_updated = 0
                      /\ sess[p] = EmptySession
C10_Witness ==
    \E p, q \in Procs :
        /\ p # q /\ InsertContacts(p) \cap InsertContacts(q) # {}
        /\ Succeeded(p) /\ Failed(q)
        /\ \E l \in db.leads : l.contact_information \in InsertContacts(q)

\* The row errors of p, in the order recorded (the transaction's error left out).
RowErrors(p) == SelectSeq(req[p].errors, LAMBDA e : e # DatabaseError)
\* The rows gone through that left no error, those of them that open a new
\* contact, and those whose contact was persisted at the start.
OkDone(p) == {k \in 1..req[p].index : ErrorsOfRow(p, k) = {}}
OkFirsts(p) ==
    {k \in OkDone(p) :
        /\ ContactOfRow(p, k) \notin StartContacts(p)
        /\ ~\E j \in OkDone(p) : j < k /\ ContactOfRow(p, j) = ContactOfRow(p, k)}
OkPersisted(p) == {k \in OkDone(p) : ContactOfRow(p, k) \in StartContacts(p)}
\* C11: a row-level failure never aborts the batch. Every row with an invalid
\* enum label or an empty name or contact has an error; every row error names
\* the position (index + 2) of a row gone through, no row has two, and they
\* are in row order; the rows with an error are in neither list (the lists
\* hold the other rows only); and the loop goes through every row: the call is
\* rejected only before the loop, and is past the loop only after the last row.
C11_RowFailureNeverAborts ==
    \A p \in Procs :
        LET errs == RowErrors(p)
        IN  /\ \A k \in 1..req[p].index :
                 (~ValidEnums(req[p].df[k]) \/ req[p].df[k]["Lead Name"] = ""
                  \/ req[p].df[k]["Contact Information"] = "")
                 => ErrorsOfRow(p, k) # {}
            /\ \A j \in 1..Len(errs) : errs[j].row \in {k + 1 : k \in 1..req[p].index}
            /\ \A i, j \in 1..Len(errs) : i < j => errs[i].row < errs[j].row
            /\ \A j \in 1..Len(req[p].errors) :
                 req[p].errors[j] = DatabaseError => j = Len(req[p].errors)
            /\ Len(req[p].leads_to_insert) = Cardinality(OkFirsts(p))
            /\ \A k \in OkFirsts(p) :
                 Cardinality(EntriesWith(req[p].leads_to_insert, ContactOfRow(p, k))) = 1
            /\ Len(req[p].leads_to_update) = Cardinality(OkPersisted(p))
            /\ pc[p] = "rejected" => req[p].index = 0
            /\ pc[p] = "rows" => req[p].index < Len(req[p].df)
            /\ pc[p] \in {"insert", "update", "commit", "done"}
               => req[p].index = Len(req[p].df)
C11_Witness ==
    \E p \in Procs :
        /\ pc[p] = "done" /\ req[p].index = 2
        /\ Len(RowErrors(p)) = 2
        /\ RowErrors(p)[1].kind = "Missing required field (Name or Contact Info)."
        /\ RowErrors(p)[1].row = 2
        /\ RowErrors(p)[2].kind = "Error processing row"
        /\ RowErrors(p)[2].row = 3
        /\ req[p].leads_to_insert = <<>> /\ req[p].leads_to_update = <<>>

====
